---- MODULE Spec2Model ----
(***************************************************************************)
(* A model of wataxrate (src/src/lib.rs): the status classifier `Code`,    *)
(* the error type `TaxInfoError`, the single-attempt fetcher `get_basic`   *)
(* and the retrying orchestrator `get`.                                    *)
(*                                                                         *)
(* Five specifications share the variables:                                *)
(*   Spec      one invocation of `get`, the service answering each attempt *)
(*             with any response of the bounded response set, or not in    *)
(*             time;                                                       *)
(*   SpecLive  Spec with fairness of get's own steps and of the timer;     *)
(*   SpecConc  concurrent invocations of `get`;                            *)
(*   SpecCode  Code::try_from / is_error / retryable applied to every u8;  *)
(*   SpecErr   TaxInfoError::retryable applied to every error value.       *)
(***************************************************************************)
EXTENDS Integers, Sequences, FiniteSets, TLC

VARIABLES
    pc,                  \* position of the running function
    remaining_attempts,  \* get: the local of lib.rs:178
    calls,               \* get: number of get_basic calls made so far
    resp,                \* what the service answered to the current call
    outcome,             \* get: value of the `timeout(..).await` expression
    result,              \* get: the value returned to the caller
    hist,                \* get: what each finished attempt ended in
    requests,            \* get_basic: number of reqwest::get calls so far
    inflight,            \* the attempts whose get_basic future is alive
    invs,                \* SpecConc: the locals of each concurrent get
    value,               \* SpecCode: the u8 handed to Code::try_from
    classified,          \* SpecCode: try_from's result and the predicates
    err,                 \* SpecErr: the TaxInfoError inspected
    err_retryable        \* SpecErr: what retryable() answered for it

vars == <<pc, remaining_attempts, calls, resp, outcome, result, hist,
          requests, inflight, invs, value, classified, err, err_retryable>>

netVars == <<requests, inflight>>
getVars == <<remaining_attempts, calls, resp, outcome, result, hist, netVars>>
concVars == <<invs>>
codeVars == <<value, classified>>
errVars == <<err, err_retryable>>

(***************************************************************************)
(* Bounds and program constants                                            *)
(***************************************************************************)
MaxCodeLen == 3          \* longest `code` attribute text the service sends

MAX_ATTEMPTS == 3

U8Max == 255

\* characters a `code` attribute is made of: the digits, the signs, a letter
Digits == {"0", "1", "2", "3", "4", "5", "6", "7", "8", "9"}
Alphabet == Digits \cup {"+", "-", "x"}

\* HTTP statuses the service answers with
Statuses == {200, 404, 500}

\* every HTTP status code, for TaxInfoError::Http
AllStatuses == 100..599

LocCodes == {-1, 1234}

(***************************************************************************)
(* Code (lib.rs:19-76)                                                     *)
(***************************************************************************)
Code ==
    {"AddrFound", "AddrNotFoundZipFound", "AdrrUpdatedAndFoundValidate",
     "AddrUpdatedAndZipFoundValidate", "AddrCorrectedAndFoundValidate",
     "Zip5FoundNoAddrOrZip4", "NoAddrNoZips", "InvalidLongLat",
     "InternalError"}

NoCode == "NoCode"       \* placeholder where a record carries no Code

Code_is_error_NoLongLat(c) ==
    CASE c = "NoAddrNoZips" -> TRUE
      [] c = "InternalError" -> TRUE
      [] OTHER -> FALSE

Code_is_error(c) ==
    CASE c = "NoAddrNoZips" -> TRUE
      [] c = "InvalidLongLat" -> TRUE
      [] c = "InternalError" -> TRUE
      [] OTHER -> FALSE

Code_retryable(c) == "InternalError" = c

\* Result<Code, &str>
CodeOk(c) == [ok |-> TRUE, code |-> c]
CodeErr == [ok |-> FALSE, code |-> NoCode]

Code_try_from_No7(v) ==
    CASE v = 0 -> CodeOk("AddrFound")
      [] v = 1 -> CodeOk("AddrNotFoundZipFound")
      [] v = 2 -> CodeOk("AdrrUpdatedAndFoundValidate")
      [] v = 3 -> CodeOk("AddrUpdatedAndZipFoundValidate")
      [] v = 4 -> CodeOk("AddrCorrectedAndFoundValidate")
      [] v = 5 -> CodeOk("Zip5FoundNoAddrOrZip4")
      [] v = 6 -> CodeOk("NoAddrNoZips")
      [] v = 9 -> CodeOk("InternalError")
      [] OTHER -> CodeErr

Code_try_from(v) ==
    CASE v = 0 -> CodeOk("AddrFound")
      [] v = 1 -> CodeOk("AddrNotFoundZipFound")
      [] v = 2 -> CodeOk("AdrrUpdatedAndFoundValidate")
      [] v = 3 -> CodeOk("AddrUpdatedAndZipFoundValidate")
      [] v = 4 -> CodeOk("AddrCorrectedAndFoundValidate")
      [] v = 5 -> CodeOk("Zip5FoundNoAddrOrZip4")
      [] v = 6 -> CodeOk("NoAddrNoZips")
      [] v = 7 -> CodeOk("InvalidLongLat")
      [] v = 9 -> CodeOk("InternalError")
      [] OTHER -> CodeErr

\* str::parse::<u8>(): an optional '+', then decimal digits, no overflow
DigitVal(ch) ==
    CASE ch = "0" -> 0 [] ch = "1" -> 1 [] ch = "2" -> 2 [] ch = "3" -> 3
      [] ch = "4" -> 4 [] ch = "5" -> 5 [] ch = "6" -> 6 [] ch = "7" -> 7
      [] ch = "8" -> 8 [] ch = "9" -> 9

U8Ok(n) == [ok |-> TRUE, n |-> n]
U8Err == [ok |-> FALSE, n |-> 0]

RECURSIVE ParseDigitsWrapping(_, _)
ParseDigitsWrapping(ds, acc) ==
    IF ds = <<>> THEN U8Ok(acc)
    ELSE IF ds[1] \notin Digits THEN U8Err
    ELSE ParseDigitsWrapping(Tail(ds), (acc * 10 + DigitVal(ds[1])) % (U8Max + 1))

RECURSIVE ParseDigits(_, _)
ParseDigits(ds, acc) ==
    IF ds = <<>> THEN U8Ok(acc)
    ELSE IF ds[1] \notin Digits THEN U8Err
    ELSE IF acc * 10 + DigitVal(ds[1]) > U8Max THEN U8Err
    ELSE ParseDigits(Tail(ds), acc * 10 + DigitVal(ds[1]))

parse_u8(s) ==
    IF Len(s) = 0 THEN U8Err
    ELSE IF s[1] \in {"+", "-"} /\ Len(s) = 1 THEN U8Err
    ELSE IF s[1] = "+" THEN ParseDigits(Tail(s), 0)
    ELSE ParseDigits(s, 0)

Code_from_str(s) ==
    LET num == parse_u8(s)
    IN  IF ~num.ok THEN CodeErr ELSE Code_try_from(num.n)

(***************************************************************************)
(* TaxInfo (lib.rs:153-171) and TaxInfoError (lib.rs:80-106)               *)
(***************************************************************************)
TaxInfo == [loccode : LocCodes, code : Code]
NoInfo == [loccode |-> 0, code |-> NoCode]

Http(status) == [tag |-> "Http", status |-> status, code |-> NoCode, info |-> NoInfo]
Dor(c, ti) == [tag |-> "Dor", status |-> {}, code |-> c, info |-> ti]
Internal == [tag |-> "Internal", status |-> {}, code |-> NoCode, info |-> NoInfo]
NoMoreRetries == [tag |-> "NoMoreRetries", status |-> {}, code |-> NoCode, info |-> NoInfo]
NoError == [tag |-> "None", status |-> {}, code |-> NoCode, info |-> NoInfo]

\* Option<StatusCode> is the empty set or a singleton
OptStatus == {{}} \cup {{s} : s \in AllStatuses}

TaxInfoError ==
    {Http(st) : st \in OptStatus}
    \cup {Dor(c, ti) : c \in Code, ti \in TaxInfo}
    \cup {Internal, NoMoreRetries}

is_server_error(s) == 500 <= s /\ s < 600

TaxInfoError_retryable_NoStatusFalse(e) ==
    CASE e.tag = "NoMoreRetries" -> FALSE
      [] e.tag = "Dor" -> Code_retryable(e.code)
      [] e.tag = "Http" ->
            IF e.status = {} THEN FALSE
            ELSE \A s \in e.status : is_server_error(s)
      [] e.tag = "Internal" -> FALSE

TaxInfoError_retryable(e) ==
    CASE e.tag = "NoMoreRetries" -> FALSE
      [] e.tag = "Dor" -> Code_retryable(e.code)
      [] e.tag = "Http" ->
            IF e.status = {} THEN TRUE
            ELSE \A s \in e.status : is_server_error(s)
      [] e.tag = "Internal" -> FALSE

\* Result<TaxInfo, TaxInfoError>
Ok(ti) == [ok |-> TRUE, val |-> ti, err |-> NoError]
Err(e) == [ok |-> FALSE, val |-> NoInfo, err |-> e]

(***************************************************************************)
(* What the service can answer to one request                              *)
(***************************************************************************)
CodeAttrs == UNION {[1..k -> Alphabet] : k \in 0..MaxCodeLen}

\* a body is text that is no <response> document, or a document whose
\* `code` attribute is any text
Garbage == [wf |-> FALSE, loccode |-> 0, code |-> <<>>]
Documents == [wf : {TRUE}, loccode : LocCodes, code : CodeAttrs]
Bodies == {Garbage} \cup Documents

NoBody == [wf |-> FALSE, loccode |-> 0, code |-> <<"x">>]

\* the connection fails before any response is received
ConnFail == [kind |-> "connfail", status |-> 0, body |-> NoBody]
\* a response with a status line arrives, reading its body fails
BodyFail(st) == [kind |-> "bodyfail", status |-> st, body |-> NoBody]
\* a response arrives whole
Response(st, b) == [kind |-> "response", status |-> st, body |-> b]
NoResp == [kind |-> "none", status |-> 0, body |-> NoBody]

Responses ==
    {ConnFail}
    \cup {BodyFail(st) : st \in Statuses}
    \cup {Response(st, b) : st \in Statuses, b \in Bodies}

(***************************************************************************)
(* get_basic (lib.rs:195-217)                                              *)
(***************************************************************************)
\* TaxInfo::from_str, derived by strong_xml: the `code` attribute is read
\* with Code::from_str
TaxInfo_from_str(b) ==
    IF ~b.wf THEN [ok |-> FALSE, val |-> NoInfo]
    ELSE LET c == Code_from_str(b.code)
         IN  IF ~c.ok THEN [ok |-> FALSE, val |-> NoInfo]
             ELSE [ok |-> TRUE, val |-> [loccode |-> b.loccode, code |-> c.code]]

\* reqwest::get(..).await?.text().await?: an error only when the connection
\* or the body read fails; a response of any status is read as text
reqwest_get_text(r) ==
    CASE r.kind = "connfail" -> [ok |-> FALSE, status |-> {}, text |-> NoBody]
      [] r.kind = "bodyfail" -> [ok |-> FALSE, status |-> {}, text |-> NoBody]
      [] r.kind = "response" -> [ok |-> TRUE, status |-> {}, text |-> r.body]

get_basic_NoErrorCheck(r) ==
    LET raw_string == reqwest_get_text(r)
    IN  IF ~raw_string.ok THEN Err(Http(raw_string.status))
        ELSE LET parsed == TaxInfo_from_str(raw_string.text)
             IN  IF parsed.ok THEN Ok(parsed.val) ELSE Err(Internal)

get_basic_DorInternalError(r) ==
    LET raw_string == reqwest_get_text(r)
    IN  IF ~raw_string.ok THEN Err(Http(raw_string.status))
        ELSE LET parsed == TaxInfo_from_str(raw_string.text)
             IN  IF parsed.ok
                 THEN LET rti == parsed.val
                      IN  IF Code_is_error(rti.code)
                          THEN Err(Dor("InternalError", rti))
                          ELSE Ok(rti)
                 ELSE Err(Internal)

get_basic(r) ==
    LET raw_string == reqwest_get_text(r)
    IN  IF ~raw_string.ok THEN Err(Http(raw_string.status))
        ELSE LET parsed == TaxInfo_from_str(raw_string.text)
             IN  IF parsed.ok
                 THEN LET rti == parsed.val
                      IN  IF Code_is_error(rti.code)
                          THEN Err(Dor(rti.code, rti))
                          ELSE Ok(rti)
                 ELSE Err(Internal)

(***************************************************************************)
(* get (lib.rs:177-192)                                                    *)
(***************************************************************************)
\* Result<Result<TaxInfo, TaxInfoError>, Elapsed>
Completed(r) == [elapsed |-> FALSE, res |-> r]
Elapsed == [elapsed |-> TRUE, res |-> Err(NoError)]
NoOutcome == [elapsed |-> FALSE, res |-> Err(NoError)]
NoResult == Err(NoError)

\* History of the invocation: how each attempt ended (a success, a failure
\* whose retryable() is true, another failure, or the deadline) and whether
\* the service's answer was a transient one: a connection-level failure, a
\* 5xx response, or a document with status code 9
TransientAnswer(r) ==
    \/ r.kind \in {"connfail", "bodyfail"}
    \/ r.kind = "response" /\ 500 <= r.status /\ r.status <= 599
    \/ r.kind = "response" /\ r.body.wf /\ parse_u8(r.body.code) = U8Ok(9)

AttemptEnd(res) ==
    IF res.ok THEN "success"
    ELSE IF TaxInfoError_retryable(res.err) THEN "retryable"
    ELSE "failure"

InitGet ==
    /\ pc = "loop"
    /\ remaining_attempts = MAX_ATTEMPTS
    /\ calls = 0
    /\ resp = NoResp
    /\ outcome = NoOutcome
    /\ result = NoResult
    /\ hist = <<>>
    /\ requests = 0
    /\ inflight = {}

IdleCode == value = 0 /\ classified = [ok |-> FALSE, code |-> NoCode, is_error |-> FALSE, retryable |-> FALSE]
IdleErr == err = NoError /\ err_retryable = FALSE
IdleConc == invs = <<>>
IdleGet ==
    /\ remaining_attempts = MAX_ATTEMPTS
    /\ calls = 0
    /\ resp = NoResp
    /\ outcome = NoOutcome
    /\ result = NoResult
    /\ hist = <<>>
    /\ requests = 0
    /\ inflight = {}

Init == InitGet /\ IdleCode /\ IdleErr /\ IdleConc

\* `while remaining_attempts > 0 { remaining_attempts -= 1;` and the call
\* of get_basic inside timeout(..)
LoopEnter_AlwaysTrue ==
    /\ pc = "loop"
    /\ remaining_attempts >= 0
    /\ remaining_attempts' = remaining_attempts - 1
    /\ calls' = calls + 1
    /\ requests' = requests + 1
    /\ inflight' = inflight \cup {calls + 1}
    /\ resp' = NoResp
    /\ outcome' = NoOutcome
    /\ pc' = "fetch"
    /\ UNCHANGED <<result, hist, codeVars, errVars, concVars>>

LoopEnter ==
    /\ pc = "loop"
    /\ remaining_attempts > 0
    /\ remaining_attempts' = remaining_attempts - 1
    /\ calls' = calls + 1
    /\ requests' = requests + 1
    /\ inflight' = inflight \cup {calls + 1}
    /\ resp' = NoResp
    /\ outcome' = NoOutcome
    /\ pc' = "fetch"
    /\ UNCHANGED <<result, hist, codeVars, errVars, concVars>>

\* the loop condition fails: `Err(TaxInfoError::NoMoreRetries)`
LoopExit_LastError ==
    /\ pc = "loop"
    /\ ~(remaining_attempts > 0)
    /\ result' = IF outcome.elapsed THEN Err(NoMoreRetries) ELSE Err(outcome.res.err)
    /\ pc' = "done"
    /\ UNCHANGED <<netVars, remaining_attempts, calls, resp, outcome, hist, codeVars, errVars, concVars>>

LoopExit ==
    /\ pc = "loop"
    /\ ~(remaining_attempts > 0)
    /\ result' = Err(NoMoreRetries)
    /\ pc' = "done"
    /\ UNCHANGED <<netVars, remaining_attempts, calls, resp, outcome, hist, codeVars, errVars, concVars>>

\* get_basic completes before the deadline with the service's answer r
Arrive_Rerequest ==
    /\ pc = "fetch"
    /\ \E a \in inflight, r \in Responses :
          /\ resp' = r
          /\ outcome' = Completed(get_basic(r))
          /\ hist' = Append(hist, [end |-> AttemptEnd(get_basic(r)),
                                   transient |-> TransientAnswer(r),
                                   attempt |-> a])
          /\ inflight' = inflight \ {a}
          /\ requests' = IF r.kind = "connfail" THEN requests + 1 ELSE requests
    /\ pc' = "match"
    /\ UNCHANGED <<remaining_attempts, calls, result, codeVars, errVars, concVars>>

Arrive ==
    /\ pc = "fetch"
    /\ \E a \in inflight, r \in Responses :
          /\ resp' = r
          /\ outcome' = Completed(get_basic(r))
          /\ hist' = Append(hist, [end |-> AttemptEnd(get_basic(r)),
                                   transient |-> TransientAnswer(r),
                                   attempt |-> a])
          /\ inflight' = inflight \ {a}
    /\ pc' = "match"
    /\ UNCHANGED <<remaining_attempts, calls, requests, result, codeVars, errVars, concVars>>

\* DEFAULT_TIMEOUT elapses first: timeout(..) answers Err(Elapsed) and
\* the get_basic future it owns is dropped, which cancels its request
Timeout_NotCancelled ==
    /\ pc = "fetch"
    /\ resp' = NoResp
    /\ outcome' = Elapsed
    /\ hist' = Append(hist, [end |-> "timeout", transient |-> FALSE, attempt |-> calls])
    /\ pc' = "match"
    /\ UNCHANGED <<remaining_attempts, calls, requests, inflight, result, codeVars, errVars, concVars>>

Timeout_Never ==
    /\ pc = "fetch"
    /\ FALSE
    /\ UNCHANGED vars

Timeout ==
    /\ pc = "fetch"
    /\ resp' = NoResp
    /\ outcome' = Elapsed
    /\ hist' = Append(hist, [end |-> "timeout", transient |-> FALSE, attempt |-> calls])
    /\ inflight' = inflight \ {calls}
    /\ pc' = "match"
    /\ UNCHANGED <<remaining_attempts, calls, requests, result, codeVars, errVars, concVars>>

\* `Ok(Ok(r)) => return Ok(r)`
MatchOk_Continue ==
    /\ pc = "match"
    /\ ~outcome.elapsed /\ outcome.res.ok
    /\ pc' = "loop"
    /\ UNCHANGED <<netVars, remaining_attempts, calls, resp, outcome, result, hist, codeVars, errVars, concVars>>

MatchOk ==
    /\ pc = "match"
    /\ ~outcome.elapsed /\ outcome.res.ok
    /\ result' = Ok(outcome.res.val)
    /\ pc' = "done"
    /\ UNCHANGED <<netVars, remaining_attempts, calls, resp, outcome, hist, codeVars, errVars, concVars>>

\* `Ok(Err(e)) => if !e.retryable() { return Err(e); }`
MatchErr_RetryAll ==
    /\ pc = "match"
    /\ ~outcome.elapsed /\ ~outcome.res.ok
    /\ pc' = "loop"
    /\ UNCHANGED <<netVars, remaining_attempts, calls, resp, outcome, result, hist, codeVars, errVars, concVars>>

MatchErr_ReturnAll ==
    /\ pc = "match"
    /\ ~outcome.elapsed /\ ~outcome.res.ok
    /\ result' = Err(outcome.res.err)
    /\ pc' = "done"
    /\ UNCHANGED <<netVars, remaining_attempts, calls, resp, outcome, hist, codeVars, errVars, concVars>>

MatchErr ==
    /\ pc = "match"
    /\ ~outcome.elapsed /\ ~outcome.res.ok
    /\ IF ~TaxInfoError_retryable(outcome.res.err)
       THEN /\ result' = Err(outcome.res.err)
            /\ pc' = "done"
       ELSE /\ pc' = "loop"
            /\ UNCHANGED result
    /\ UNCHANGED <<netVars, remaining_attempts, calls, resp, outcome, hist, codeVars, errVars, concVars>>

\* `Err(_) => { /* continue */ }`
MatchElapsed_GiveUp ==
    /\ pc = "match"
    /\ outcome.elapsed
    /\ result' = Err(NoMoreRetries)
    /\ pc' = "done"
    /\ UNCHANGED <<netVars, remaining_attempts, calls, resp, outcome, hist, codeVars, errVars, concVars>>

MatchElapsed ==
    /\ pc = "match"
    /\ outcome.elapsed
    /\ pc' = "loop"
    /\ UNCHANGED <<netVars, remaining_attempts, calls, resp, outcome, result, hist, codeVars, errVars, concVars>>

Next ==
    \/ LoopEnter
    \/ LoopExit
    \/ Arrive
    \/ Timeout
    \/ MatchOk
    \/ MatchErr
    \/ MatchElapsed

Spec == Init /\ [][Next]_vars

\* The steps of get itself and the timer of timeout(..) always happen in the
\* end; the service may never answer, so Arrive is not required to happen.
GetStep ==
    \/ LoopEnter
    \/ LoopExit
    \/ Timeout
    \/ MatchOk
    \/ MatchErr
    \/ MatchElapsed

SpecLive == Init /\ [][Next]_vars /\ WF_vars(GetStep)

(***************************************************************************)
(* SpecCode: the status classifier on every u8                             *)
(***************************************************************************)
InitCode ==
    /\ pc = "code_arg"
    /\ value \in 0..U8Max
    /\ classified = [ok |-> FALSE, code |-> NoCode, is_error |-> FALSE, retryable |-> FALSE]
    /\ IdleGet /\ IdleErr /\ IdleConc

Classify ==
    /\ pc = "code_arg"
    /\ LET c == Code_try_from(value)
       IN  classified' =
               [ok |-> c.ok, code |-> c.code,
                is_error |-> c.ok /\ Code_is_error(c.code),
                retryable |-> c.ok /\ Code_retryable(c.code)]
    /\ pc' = "code_done"
    /\ UNCHANGED <<value, getVars, errVars, concVars>>

NextCode == Classify

SpecCode == InitCode /\ [][NextCode]_vars

(***************************************************************************)
(* SpecErr: TaxInfoError::retryable on every error value                   *)
(***************************************************************************)
InitErr ==
    /\ pc = "err_arg"
    /\ err \in TaxInfoError
    /\ err_retryable = FALSE
    /\ IdleGet /\ IdleCode /\ IdleConc

AskRetryable ==
    /\ pc = "err_arg"
    /\ err_retryable' = TaxInfoError_retryable(err)
    /\ pc' = "err_done"
    /\ UNCHANGED <<err, getVars, codeVars, concVars>>

NextErr == AskRetryable

SpecErr == InitErr /\ [][NextErr]_vars

(***************************************************************************)
(* SpecConc: concurrent invocations of get (lib.rs:177-192), each with its *)
(* own locals; the service answers with one of a few responses             *)
(***************************************************************************)
NumInvocations == 2
Invocations == 1..NumInvocations

\* two documents that decode to a success, one with status code 9, and a
\* body that does not decode
ConcResponses ==
    {Response(200, [wf |-> TRUE, loccode |-> 1234, code |-> <<"0">>]),
     Response(200, [wf |-> TRUE, loccode |-> -1, code |-> <<"5">>]),
     Response(200, [wf |-> TRUE, loccode |-> 1234, code |-> <<"9">>]),
     Response(200, Garbage)}

\* the locals of one invocation on entry, and the outcomes of its attempts
NewInvocation ==
    [pc |-> "loop", remaining_attempts |-> MAX_ATTEMPTS, calls |-> 0,
     resp |-> NoResp, outcome |-> NoOutcome, result |-> NoResult,
     hist |-> <<>>]

InitConc ==
    /\ pc = "conc"
    /\ invs = [i \in Invocations |-> NewInvocation]
    /\ IdleGet /\ IdleCode /\ IdleErr

ConcLoopEnter_SharedCounter(i) ==
    /\ invs[i].pc = "loop"
    /\ invs[i].remaining_attempts > 0
    /\ invs' = [j \in Invocations |->
                  IF j = i
                  THEN [invs[j] EXCEPT !.remaining_attempts = @ - 1,
                                       !.calls = @ + 1,
                                       !.resp = NoResp,
                                       !.outcome = NoOutcome,
                                       !.pc = "fetch"]
                  ELSE [invs[j] EXCEPT !.remaining_attempts = @ - 1]]
    /\ UNCHANGED <<pc, getVars, codeVars, errVars>>

ConcLoopEnter(i) ==
    /\ invs[i].pc = "loop"
    /\ invs[i].remaining_attempts > 0
    /\ invs' = [invs EXCEPT ![i] =
                  [@ EXCEPT !.remaining_attempts = @ - 1,
                            !.calls = @ + 1,
                            !.resp = NoResp,
                            !.outcome = NoOutcome,
                            !.pc = "fetch"]]
    /\ UNCHANGED <<pc, getVars, codeVars, errVars>>

ConcLoopExit(i) ==
    /\ invs[i].pc = "loop"
    /\ ~(invs[i].remaining_attempts > 0)
    /\ invs' = [invs EXCEPT ![i] =
                  [@ EXCEPT !.result = Err(NoMoreRetries), !.pc = "done"]]
    /\ UNCHANGED <<pc, getVars, codeVars, errVars>>

\* the answers other invocations received last
OtherAnswers(i) ==
    {invs[j].resp : j \in {k \in Invocations : k # i /\ invs[k].resp.kind = "response"}}

ConcArrive_Stale(i) ==
    /\ invs[i].pc = "fetch"
    /\ \E r \in ConcResponses :
          LET used == IF OtherAnswers(i) = {} THEN r
                      ELSE CHOOSE o \in OtherAnswers(i) : TRUE
          IN  invs' = [invs EXCEPT ![i] =
                  [@ EXCEPT !.resp = r,
                            !.outcome = Completed(get_basic(used)),
                            !.hist = Append(@, Completed(get_basic(used))),
                            !.pc = "match"]]
    /\ UNCHANGED <<pc, getVars, codeVars, errVars>>

ConcArrive(i) ==
    /\ invs[i].pc = "fetch"
    /\ \E r \in ConcResponses :
          invs' = [invs EXCEPT ![i] =
                  [@ EXCEPT !.resp = r,
                            !.outcome = Completed(get_basic(r)),
                            !.hist = Append(@, Completed(get_basic(r))),
                            !.pc = "match"]]
    /\ UNCHANGED <<pc, getVars, codeVars, errVars>>

ConcTimeout(i) ==
    /\ invs[i].pc = "fetch"
    /\ invs' = [invs EXCEPT ![i] =
                  [@ EXCEPT !.resp = NoResp,
                            !.outcome = Elapsed,
                            !.hist = Append(@, Elapsed),
                            !.pc = "match"]]
    /\ UNCHANGED <<pc, getVars, codeVars, errVars>>

ConcMatchOk(i) ==
    /\ invs[i].pc = "match"
    /\ ~invs[i].outcome.elapsed /\ invs[i].outcome.res.ok
    /\ invs' = [invs EXCEPT ![i] =
                  [@ EXCEPT !.result = Ok(invs[i].outcome.res.val), !.pc = "done"]]
    /\ UNCHANGED <<pc, getVars, codeVars, errVars>>

ConcMatchErr(i) ==
    /\ invs[i].pc = "match"
    /\ ~invs[i].outcome.elapsed /\ ~invs[i].outcome.res.ok
    /\ IF ~TaxInfoError_retryable(invs[i].outcome.res.err)
       THEN invs' = [invs EXCEPT ![i] =
                  [@ EXCEPT !.result = Err(invs[i].outcome.res.err), !.pc = "done"]]
       ELSE invs' = [invs EXCEPT ![i] = [@ EXCEPT !.pc = "loop"]]
    /\ UNCHANGED <<pc, getVars, codeVars, errVars>>

ConcMatchElapsed_GiveUp(i) ==
    /\ invs[i].pc = "match"
    /\ invs[i].outcome.elapsed
    /\ invs' = [invs EXCEPT ![i] =
                  [@ EXCEPT !.result = Err(NoMoreRetries), !.pc = "done"]]
    /\ UNCHANGED <<pc, getVars, codeVars, errVars>>

ConcMatchElapsed(i) ==
    /\ invs[i].pc = "match"
    /\ invs[i].outcome.elapsed
    /\ invs' = [invs EXCEPT ![i] = [@ EXCEPT !.pc = "loop"]]
    /\ UNCHANGED <<pc, getVars, codeVars, errVars>>

NextConc ==
    \E i \in Invocations :
        \/ ConcLoopEnter(i)
        \/ ConcLoopExit(i)
        \/ ConcArrive(i)
        \/ ConcTimeout(i)
        \/ ConcMatchOk(i)
        \/ ConcMatchErr(i)
        \/ ConcMatchElapsed(i)

SpecConc == InitConc /\ [][NextConc]_vars

(***************************************************************************)
(* Properties                                                              *)
(***************************************************************************)
\* the status codes that report an error, by name
ErrorCodeNames == {"NoAddrNoZips", "InvalidLongLat", "InternalError"}

\* an attempt has ended and `resp` is the whole response it received
Answered == pc \in {"match", "loop", "done"} /\ resp.kind = "response"

\* the attempt outcomes after which get tries again
RetryLike == {"timeout", "retryable"}
Attempts == Len(hist)
LastEnd == hist[Len(hist)].end
EarlierRetryLike == \A i \in 1..(Len(hist) - 1) : hist[i].end \in RetryLike
AllRetryLike == \A i \in 1..Len(hist) : hist[i].end \in RetryLike

\* C1: get_basic and get return a TaxInfo as Ok only if its code is no
\* error code, and a decoded payload whose code is an error code makes the
\* attempt a TaxInfoError::Dor.
C1_OkOnlyWithoutErrorCode ==
    /\ (~outcome.elapsed /\ outcome.res.ok)
          => outcome.res.val.code \in Code \ ErrorCodeNames
    /\ (pc = "done" /\ result.ok) => result.val.code \in Code \ ErrorCodeNames
    /\ (Answered /\ TaxInfo_from_str(resp.body).ok
          /\ TaxInfo_from_str(resp.body).val.code \in ErrorCodeNames)
          => (~outcome.res.ok /\ outcome.res.err.tag = "Dor")

C1_Witness ==
    /\ pc = "done" /\ result.ok /\ Attempts = 2
    /\ hist[1].end = "retryable"
    /\ result.val.code = "Zip5FoundNoAddrOrZip4"

\* the enumeration member the service's interface documents for a value
DocumentedMember(v) ==
    CASE v = 0 -> "AddrFound"
      [] v = 1 -> "AddrNotFoundZipFound"
      [] v = 2 -> "AdrrUpdatedAndFoundValidate"
      [] v = 3 -> "AddrUpdatedAndZipFoundValidate"
      [] v = 4 -> "AddrCorrectedAndFoundValidate"
      [] v = 5 -> "Zip5FoundNoAddrOrZip4"
      [] v = 6 -> "NoAddrNoZips"
      [] v = 7 -> "InvalidLongLat"
      [] v = 9 -> "InternalError"
      [] OTHER -> NoCode

\* C2 as stated: Code::try_from succeeds with the documented member for
\* every value in {0,1,2,3,4,5,6,9} and fails for every other u8.
C2_AsStated ==
    pc = "code_done" =>
        /\ classified.ok <=> value \in {0, 1, 2, 3, 4, 5, 6, 9}
        /\ classified.ok => classified.code = DocumentedMember(value)

\* C2 amended: Code::try_from succeeds with the documented member for every
\* value in {0,1,2,3,4,5,6,7,9} and fails for every other u8.
C2_ClassifiesDocumentedValues ==
    pc = "code_done" =>
        /\ classified.ok <=> value \in {0, 1, 2, 3, 4, 5, 6, 7, 9}
        /\ classified.ok => classified.code = DocumentedMember(value)
        /\ ~classified.ok => classified.code = NoCode

C2_Witness == pc = "code_done" /\ value = 7 /\ classified.ok /\ classified.code = "InvalidLongLat"

\* C3: over the codes the classifier produces, is_error() is true exactly
\* for the values 6, 7 and 9 and retryable() exactly for the value 9.
C3_ErrorAndRetryableCodes ==
    (pc = "code_done" /\ classified.ok) =>
        /\ classified.is_error <=> value \in {6, 7, 9}
        /\ classified.is_error <=> classified.code \in ErrorCodeNames
        /\ classified.retryable <=> value = 9
        /\ classified.retryable <=> classified.code = "InternalError"

C3_Witness ==
    /\ pc = "code_done" /\ value = 7
    /\ classified.is_error /\ ~classified.retryable

\* C4: a failure whose retryable() is false is returned by get at once,
\* with no further call of the fetcher; when it is the first attempt's, the
\* fetcher was called exactly once.
NonRetryableFailure ==
    /\ ~outcome.elapsed /\ ~outcome.res.ok
    /\ outcome.res.err # NoError
    /\ ~TaxInfoError_retryable(outcome.res.err)

C4_NonRetryableReturnedAtOnce ==
    /\ [][(pc = "match" /\ NonRetryableFailure)
            => (pc' = "done" /\ result' = Err(outcome.res.err) /\ calls' = calls)]_vars
    /\ [][pc = "done" => (pc' = "done" /\ calls' = calls /\ result' = result)]_vars
    /\ []((pc = "done" /\ NonRetryableFailure)
            => (result = Err(outcome.res.err) /\ calls = Attempts))

C4_Witness ==
    /\ pc = "done" /\ NonRetryableFailure
    /\ Attempts = 1 /\ calls = 1
    /\ result = Err(Internal)

\* C5: when the first k-1 attempts end in a timeout or a retryable failure
\* and the k-th succeeds, get has called the fetcher exactly k times and
\* returns the k-th attempt's value.
C5_SuccessAfterRetries ==
    (Attempts >= 1 /\ LastEnd = "success" /\ EarlierRetryLike) =>
        /\ pc \in {"match", "done"}
        /\ calls = Attempts
        /\ outcome.res.ok
        /\ pc = "done" => result = Ok(outcome.res.val)

C5_Witness ==
    /\ pc = "done" /\ calls = 3 /\ result.ok
    /\ hist[1].end = "timeout" /\ hist[2].end = "timeout" /\ hist[3].end = "success"

\* C6: when every attempt ends in a timeout or a retryable failure, get
\* returns NoMoreRetries after exactly MAX_ATTEMPTS calls of the fetcher.
C6_ExhaustedAfterMaxAttempts ==
    (pc = "done" /\ AllRetryLike) =>
        /\ calls = MAX_ATTEMPTS
        /\ Attempts = MAX_ATTEMPTS
        /\ result = Err(NoMoreRetries)

C6_Witness ==
    /\ pc = "done" /\ result = Err(NoMoreRetries)
    /\ \A i \in 1..MAX_ATTEMPTS : hist[i].end = "timeout"

\* C7: when the service answers every attempt with a 5xx response, a
\* connection failure or the status code 9, get returns NoMoreRetries after
\* MAX_ATTEMPTS calls of the fetcher.
C7_TransientAnswersRetried ==
    (pc = "done" /\ \A i \in 1..Len(hist) : hist[i].transient) =>
        /\ calls = MAX_ATTEMPTS
        /\ result = Err(NoMoreRetries)

\* C8: a decoded payload whose code is an error code makes get_basic return
\* Dor with that code and the whole payload, and the error is retryable
\* exactly when the code is.
C8_DorCarriesCodeAndPayload ==
    (Answered /\ TaxInfo_from_str(resp.body).ok
        /\ TaxInfo_from_str(resp.body).val.code \in ErrorCodeNames) =>
        LET e == outcome.res.err
        IN  /\ ~outcome.res.ok
            /\ e.tag = "Dor"
            /\ e.info = TaxInfo_from_str(resp.body).val
            /\ e.info.loccode = resp.body.loccode
            /\ e.code = e.info.code
            /\ TaxInfoError_retryable(e) <=> (e.code = "InternalError")

C8_Witness ==
    /\ pc = "match" /\ resp.kind = "response"
    /\ resp.body.wf /\ resp.body.code = <<"9">> /\ resp.body.loccode = 1234
    /\ outcome.res.err = Dor("InternalError", [loccode |-> 1234, code |-> "InternalError"])

\* the texts of a `code` attribute that denote a member of the enumeration:
\* an optional '+', any zeros, and one of the digits 0-7 and 9
MemberDigits == {"0", "1", "2", "3", "4", "5", "6", "7", "9"}
DenotesMember(s) ==
    LET ds == IF Len(s) >= 1 /\ s[1] = "+" THEN Tail(s) ELSE s
    IN  /\ Len(ds) >= 1
        /\ \A i \in 1..(Len(ds) - 1) : ds[i] = "0"
        /\ ds[Len(ds)] \in MemberDigits

Undecodable(b) == ~b.wf \/ ~DenotesMember(b.code)

\* C9: a body that does not decode, a code text that is no number or no
\* member of the enumeration included, makes get_basic return Internal, and
\* get returns it with no further call of the fetcher.
C9_DecodeFailureIsTerminal ==
    (Answered /\ Undecodable(resp.body)) =>
        /\ outcome.res = Err(Internal)
        /\ ~TaxInfoError_retryable(outcome.res.err)
        /\ pc \in {"match", "done"}
        /\ calls = Attempts
        /\ pc = "done" => result = Err(Internal)

C9_Witness ==
    /\ pc = "done" /\ calls = 1
    /\ resp.kind = "response" /\ resp.body.wf /\ resp.body.code = <<"2", "5", "6">>
    /\ result = Err(Internal)

\* C10: retryable() of an Http error is true with a 5xx status or with no
\* status and false with a 4xx status; of Internal and NoMoreRetries it is
\* false; of Dor it is what its code's retryable() is.
C10_RetryableByVariant ==
    pc = "err_done" =>
        /\ err.tag = "Http" /\ err.status = {} => err_retryable
        /\ \A s \in 500..599 : (err.tag = "Http" /\ err.status = {s}) => err_retryable
        /\ \A s \in 400..499 : (err.tag = "Http" /\ err.status = {s}) => ~err_retryable
        /\ err.tag \in {"Internal", "NoMoreRetries"} => ~err_retryable
        /\ err.tag = "Dor" => (err_retryable <=> err.code = "InternalError")

C10_Witness ==
    /\ pc = "err_done"
    /\ err.tag = "Http" /\ err.status = {503}
    /\ err_retryable

\* C12: when the attempts are exhausted get returns the bare NoMoreRetries,
\* whatever the attempts ended in, and not the last attempt's error.
C12_ExhaustedIsBare ==
    /\ (pc = "done" /\ result.err.tag = "NoMoreRetries") =>
          /\ ~result.ok /\ result.val = NoInfo
          /\ result.err.info = NoInfo /\ result.err.code = NoCode
          /\ result.err.status = {}
    /\ (pc = "done" /\ Attempts = MAX_ATTEMPTS /\ AllRetryLike) =>
          /\ result.err.tag = "NoMoreRetries"
          /\ ~outcome.elapsed => result.err # outcome.res.err

C12_Witness ==
    /\ pc = "done" /\ Attempts = MAX_ATTEMPTS
    /\ outcome.res.err = Dor("InternalError", [loccode |-> 1234, code |-> "InternalError"])
    /\ result = Err(NoMoreRetries)

\* C13: the fetch of an attempt whose deadline elapsed is cancelled before
\* the next attempt starts: at most one fetch is in flight, and the answer
\* an iteration handles is the answer to its own fetch.
C13_TimedOutFetchCancelled ==
    /\ Cardinality(inflight) <= 1
    /\ pc = "fetch" => inflight = {calls}
    /\ pc # "fetch" => inflight = {}
    /\ \A i \in 1..Len(hist) : hist[i].attempt = i
    /\ (pc = "done" /\ result.ok) =>
          (LastEnd = "success" /\ hist[Len(hist)].attempt = calls)

C13_Witness ==
    /\ pc = "fetch" /\ calls = 2
    /\ hist[1].end = "timeout"
    /\ inflight = {2}

\* C16: every call of get_basic makes exactly one network request, however
\* it ends, so the requests of a get invocation are as many as the
\* iterations of its loop.
C16_OneRequestPerCall ==
    /\ requests = calls
    /\ requests = MAX_ATTEMPTS - remaining_attempts
    /\ requests = Attempts + (IF pc = "fetch" THEN 1 ELSE 0)

C16_Witness ==
    /\ pc = "done" /\ requests = 3
    /\ hist[1].end = "retryable" /\ hist[2].end = "timeout" /\ hist[3].end = "failure"

\* C17: get returns in the end, the service answering or not, after at
\* least 1 and at most MAX_ATTEMPTS calls of the fetcher.
C17_Terminates ==
    /\ <>(pc = "done")
    /\ [](pc = "done" => (1 <= calls /\ calls <= MAX_ATTEMPTS))

C17_Witness ==
    /\ pc = "done" /\ calls = MAX_ATTEMPTS
    /\ \A i \in 1..MAX_ATTEMPTS : hist[i].end = "timeout"
    /\ ~result.ok

\* C18: an error get returns is never retryable: no Dor with the
\* internal-error code, no Http error of a 5xx status or of no status; after
\* a last attempt that ended so, get returns NoMoreRetries.
C18_ReturnedErrorNotRetryable ==
    /\ (pc = "done" /\ ~result.ok) =>
          /\ ~TaxInfoError_retryable(result.err)
          /\ ~(result.err.tag = "Dor" /\ result.err.code = "InternalError")
          /\ ~(result.err.tag = "Http"
                 /\ (result.err.status = {}
                       \/ \E s \in result.err.status : 500 <= s /\ s <= 599))
    /\ (pc = "done" /\ LastEnd = "retryable") => result = Err(NoMoreRetries)

C18_Witness ==
    /\ pc = "done" /\ LastEnd = "retryable"
    /\ outcome.res.err.tag = "Http"
    /\ result = Err(NoMoreRetries)

\* C19: whenever the loop condition is evaluated, the fetcher calls made
\* plus remaining_attempts are MAX_ATTEMPTS, and remaining_attempts stays
\* within 0..MAX_ATTEMPTS.
C19_AttemptCounter ==
    /\ remaining_attempts \in 0..MAX_ATTEMPTS
    /\ pc = "loop" => calls + remaining_attempts = MAX_ATTEMPTS

C19_Witness ==
    /\ pc = "loop" /\ remaining_attempts = 0 /\ calls = MAX_ATTEMPTS

\* an attempt outcome after which get tries again: the deadline, or a
\* failure whose retryable() is true
OutcomeRetryLike(o) ==
    o.elapsed \/ (~o.res.ok /\ TaxInfoError_retryable(o.res.err))

\* two sequences of attempt outcomes that differ only in which of the two
\* try-again outcomes stands at a position
Similar(h1, h2) ==
    /\ Len(h1) = Len(h2)
    /\ \A k \in 1..Len(h1) :
          h1[k] = h2[k] \/ (OutcomeRetryLike(h1[k]) /\ OutcomeRetryLike(h2[k]))

\* C11: a timeout and a retryable failure are treated alike: two
\* invocations whose attempt outcomes differ only by a timeout standing for
\* a retryable failure return the same value after the same number of
\* fetcher calls.
C11_TimeoutLikeRetryableFailure ==
    \A i, j \in Invocations :
        (Similar(invs[i].hist, invs[j].hist) /\ invs[i].pc = "done") =>
            /\ invs[j].calls = invs[i].calls
            /\ ~(invs[j].pc = "loop" /\ invs[j].remaining_attempts > 0)
            /\ invs[j].pc = "done" => invs[j].result = invs[i].result

C11_Witness ==
    /\ invs[1].pc = "done" /\ invs[2].pc = "done"
    /\ Len(invs[1].hist) = 3
    /\ Similar(invs[1].hist, invs[2].hist)
    /\ invs[1].hist[1].elapsed /\ ~invs[2].hist[1].elapsed
    /\ ~invs[1].hist[2].elapsed /\ invs[2].hist[2].elapsed
    /\ invs[1].result.ok /\ invs[2].result = invs[1].result

\* what a sequence of attempt outcomes alone says of an invocation: whether
\* it has returned, and what
ExpectedFinished(h) ==
    /\ Len(h) >= 1
    /\ ~OutcomeRetryLike(h[Len(h)]) \/ Len(h) = MAX_ATTEMPTS

ExpectedResult(h) ==
    IF OutcomeRetryLike(h[Len(h)]) THEN Err(NoMoreRetries) ELSE h[Len(h)].res

\* C14: under every interleaving, the result and the number of fetcher
\* calls of an invocation are decided by the outcomes of its own attempts.
C14_InvocationsIndependent ==
    /\ \A i \in Invocations :
          /\ invs[i].calls = Len(invs[i].hist) + (IF invs[i].pc = "fetch" THEN 1 ELSE 0)
          /\ invs[i].pc = "done" =>
                /\ ExpectedFinished(invs[i].hist)
                /\ invs[i].result = ExpectedResult(invs[i].hist)
          /\ (invs[i].pc = "fetch" \/ (invs[i].pc = "loop" /\ invs[i].remaining_attempts > 0))
                => ~ExpectedFinished(invs[i].hist)
    /\ \A i, j \in Invocations :
          (invs[i].pc = "done" /\ invs[j].pc = "done" /\ invs[i].hist = invs[j].hist) =>
                (invs[i].result = invs[j].result /\ invs[i].calls = invs[j].calls)

C14_Witness ==
    /\ invs[1].pc = "done" /\ invs[1].calls = 3 /\ invs[1].result = Err(NoMoreRetries)
    /\ invs[2].pc = "done" /\ invs[2].calls = 1 /\ invs[2].result.ok

====
